---- MODULE Spec2Model ----
(***************************************************************************)
(* Model of the PharmAI workflow middleware: the gateway operations of     *)
(* services/workflow.py, the rule store and the evaluation pass of         *)
(* services/rules.py, on top of the SQLAlchemy sessions of                 *)
(* models/database.py.                                                     *)
(*                                                                         *)
(* The database tables are sequences: the row at index i is the row whose  *)
(* autoincrement primary key is i (no row is ever deleted).  Every request *)
(* runs in its own Session (SessionLocal()); a Session keeps an in-memory  *)
(* copy of the workflow it works on and writes it back at commit.          *)
(***************************************************************************)
EXTENDS Integers, Sequences, FiniteSets, TLC

\* ------------------------------------------------------------------ bounds

\* Number of gateway operations that may start (each start advances the clock).
MaxClock == 2
\* Number of rows the rules table may hold.
MaxDemoRows == 5
MaxDemoTicks == 2
MaxRules == 2

\* ------------------------------------------------------------- enumerations

ORDERED == "ordered"
PENDING_ACCESS == "pending_access"
ACCESS_GRANTED == "access_granted"
DISPENSED == "dispensed"
COMPLETED == "completed"
FAILED == "failed"

WorkflowState == {ORDERED, PENDING_ACCESS, ACCESS_GRANTED, DISPENSED, COMPLETED, FAILED}

TaskState == {"pending", "in_progress", "completed", "failed"}

\* The concurrent requests: each one owns a Session (SessionLocal()).
Sessions == {"s1", "s2"}

\* ------------------------------------------------------------------- state

VARIABLES
    workflows,  \* table workflows: id -> [state, updated_at]
    tasks,      \* table tasks: id -> [workflow_id, name, state, updated_at]
    events,     \* table events: id -> [workflow_id, event_type, tick]
    rules,      \* table rules: id -> [condition, action]
    now,        \* datetime.utcnow()
    pc,         \* per session: position of the request in its handler
    op,         \* per session: the operation and its arguments
    mem,        \* per session: the Workflow object held by the Session
    loaded,     \* per session: the list list_rules() returned to the pass
    passlog,    \* per session: what the pass did with each rule, in visiting order
    passes,     \* per session: calls of evaluate_rules_for_workflow in the request
    pre,        \* the tables as they were when the request of client s1 started
    wrote,      \* per session: ids of the rows and columns the commits wrote
    catalog,    \* the rule texts the clients of this run submit
    clients,    \* the sessions that take requests in this run
    DEMO_ROWS,  \* dashboard: the list of demo rows, in seeding order
    DEMO_BY_ID, \* dashboard: demo id -> its row (the position of the row object)
    sim,        \* per session: the simulate request it serves and its answer
    seeding,    \* per thread: the seed request it serves and its place in _mk_case
    auth        \* per session: the X-API-Key of its requests and what auth made of it

\* The aggregates as stored: what get_workflow and list_workflows read.
db == [workflows |-> workflows, tasks |-> tasks, events |-> events]

sessionVars == <<pc, op, mem, loaded, passlog, passes, pre, wrote>>
tableVars == <<workflows, tasks, events, rules>>
runVars == <<catalog, clients, auth>>
demoVars == <<DEMO_ROWS, DEMO_BY_ID, sim, seeding>>
vars == <<workflows, tasks, events, rules, now, pc, op, mem, loaded, passlog, passes, pre, wrote,
          catalog, clients, DEMO_ROWS, DEMO_BY_ID, sim, seeding, auth>>

NoOp == [kind |-> "none"]
NoUser == [api_key |-> "none", role |-> "none"]
NoAuth == [call |-> "none", x_api_key |-> "none", required |-> "none", status |-> 0,
           user |-> NoUser]
NoSeeding == [at |-> "idle", todo |-> <<>>, demo_id |-> 0, row |-> 0]
NoSim == [active |-> FALSE, workflow_id |-> 0, cycles |-> 0, did |-> 0, status |-> "none",
          log |-> <<>>]
NoRetyped == [ids |-> {}, event_type |-> "none"]
NoMoved == [ids |-> {}, workflow_id |-> 0]
NoMem == [workflow_id |-> 0, loaded_state |-> "none", state |-> "none", new_events |-> <<>>,
          retyped |-> NoRetyped, moved |-> NoMoved]
NoPre == [workflows |-> <<>>, tasks |-> <<>>, events |-> <<>>]
NoWrote == [workflow |-> 0, tasks |-> <<>>, events |-> <<>>, rule_events |-> <<>>]

\* The process has started (Base.metadata.create_all) and no request is running.
Started ==
    /\ rules = <<>>
    /\ now = 0
    /\ pc = [s \in Sessions |-> "idle"]
    /\ op = [s \in Sessions |-> NoOp]
    /\ mem = [s \in Sessions |-> NoMem]
    /\ loaded = [s \in Sessions |-> <<>>]
    /\ passlog = [s \in Sessions |-> <<>>]
    /\ passes = [s \in Sessions |-> 0]
    /\ pre = NoPre
    /\ wrote = [s \in Sessions |-> NoWrote]
    /\ DEMO_ROWS = <<>>
    /\ DEMO_BY_ID = <<>>
    /\ sim = [s \in Sessions |-> NoSim]
    /\ seeding = [s \in Sessions |-> NoSeeding]

\* A new database file: the tables are empty.
Empty ==
    /\ workflows = <<>>
    /\ tasks = <<>>
    /\ events = <<>>

\* The database file outlives the process; this one holds what an earlier
\* create_workflow with one initial task left, no rule being stored then.
Seeded ==
    /\ workflows = <<[state |-> ORDERED, updated_at |-> 0]>>
    /\ tasks = <<[workflow_id |-> 1, name |-> "a", state |-> "pending", updated_at |-> 0]>>
    /\ events = <<>>

\* A request is between its first statement and its return.
InFlight(s) == pc[s] \in {"commit1", "refresh", "listrules", "eval", "commit2"}

\* A session takes a request when it has none.
Ready(s) == pc[s] = "idle"

\* ------------------------------------------------------ rule expressions

(***************************************************************************)
(* A rule's condition and action are Python source text, run with eval()   *)
(* and exec() against env = {workflow, WorkflowState}.  The texts the      *)
(* model stores are these:                                                 *)
(*   condition  state_eq(S)   "workflow.state == WorkflowState.S"          *)
(*              raises        text that parses and raises when evaluated   *)
(*                            (e.g. "workflow.nope == 1": AttributeError)  *)
(*              unparsable    text that is no expression                   *)
(*                            ("not a valid expression!!": SyntaxError)    *)
(*              assigns_then_raises(S)  an expression that writes to the   *)
(*                            workflow and then raises:                    *)
(*                            "setattr(workflow, 'state', WorkflowState.S) *)
(*                             or 1/0"                                     *)
(*              clock_past(T) an expression that reads the host's clock    *)
(*                            and not the workflow:                        *)
(*                            "__import__('datetime').datetime.utcnow()    *)
(*                             > <T>"                                      *)
(*   action     effects(<<e1, .., en>>)  statements run in order, each     *)
(*                  set_state(S)     "workflow.state = WorkflowState.S",   *)
(*                                   or "workflow.state = 'bogus'" for a   *)
(*                                   string that names no member           *)
(*                  append_event(T)  "workflow.events.append(<Event T>)"   *)
(*                  raises           a statement that raises               *)
(*                  loops_forever    "while True: pass"                    *)
(*                  move_tasks(W)    "for t in workflow.tasks:             *)
(*                                        t.workflow_id = W"               *)
(*                  retype_events(T) "for e in workflow.events:            *)
(*                                        e.event_type = 'T'"              *)
(*              unparsable    text that is no statement list                *)
(* Every exception meant here is an Exception (SyntaxError, NameError,     *)
(* AttributeError, ...), which is what the pass catches.                   *)
(***************************************************************************)
StateEq(st) == [kind |-> "state_eq", arg |-> st]
CondRaises == [kind |-> "raises", arg |-> "none"]
Unparsable == [kind |-> "unparsable", arg |-> "none"]
AssignsThenRaises(st) == [kind |-> "assigns_then_raises", arg |-> st]
ClockPast(t) == [kind |-> "clock_past", arg |-> t]

SetState(st) == [kind |-> "set_state", arg |-> st]
AppendEvent(t) == [kind |-> "append_event", arg |-> t]
StmtRaises == [kind |-> "raises", arg |-> "none"]
MoveTasks(w) == [kind |-> "move_tasks", arg |-> w]
LoopsForever == [kind |-> "loops_forever", arg |-> "none"]
RetypeEvents(t) == [kind |-> "retype_events", arg |-> t]
Effects(effs) == [kind |-> "effects", effects |-> effs]
UnparsableAction == [kind |-> "unparsable", effects |-> <<>>]

\* Whether a text parses (compile() succeeds); nothing in the code asks.
Parses(expr) == expr.kind # "unparsable"

\* The rule texts the clients of a deployment submit to POST /rules: a run of
\* the model is a deployment with one of these catalogs.
AdvanceRule == [condition |-> StateEq(ORDERED), action |-> Effects(<<SetState(PENDING_ACCESS)>>)]
NotifyRule == [condition |-> StateEq(PENDING_ACCESS),
               action |-> Effects(<<AppendEvent("auto_advanced")>>)]
BadConditionRule == [condition |-> CondRaises, action |-> Effects(<<SetState(FAILED)>>)]
HalfActionRule == [condition |-> StateEq(ORDERED),
                   action |-> Effects(<<AppendEvent("partial"), StmtRaises, SetState(COMPLETED)>>)]
GarbageConditionRule == [condition |-> Unparsable, action |-> Effects(<<SetState(COMPLETED)>>)]
GarbageActionRule == [condition |-> StateEq(ORDERED), action |-> UnparsableAction]
MeddlingConditionRule == [condition |-> AssignsThenRaises(FAILED), action |-> Effects(<<>>)]
AfterHoursRule == [condition |-> ClockPast(1), action |-> Effects(<<SetState(FAILED)>>)]
CompleteRule == [condition |-> StateEq(ORDERED), action |-> Effects(<<SetState(COMPLETED)>>)]
ReopenRule == [condition |-> StateEq(COMPLETED), action |-> Effects(<<SetState(ORDERED)>>)]
FailRule == [condition |-> StateEq(ORDERED), action |-> Effects(<<SetState(FAILED)>>)]
RetryRule == [condition |-> StateEq(FAILED), action |-> Effects(<<SetState(PENDING_ACCESS)>>)]
HandOverRule == [condition |-> StateEq(ORDERED), action |-> Effects(<<MoveTasks(2)>>)]
StumbleRule == [condition |-> StateEq(ORDERED),
                action |-> Effects(<<SetState(PENDING_ACCESS), AppendEvent("partial"),
                                     StmtRaises, SetState(FAILED)>>)]
LoopRule == [condition |-> StateEq(ORDERED), action |-> Effects(<<LoopsForever>>)]
BogusStateRule == [condition |-> StateEq(ORDERED), action |-> Effects(<<SetState("bogus")>>)]
RedactRule == [condition |-> StateEq(ORDERED), action |-> Effects(<<RetypeEvents("redacted")>>)]

RuleCatalogs ==
    { {AdvanceRule, NotifyRule},
      {AdvanceRule, BadConditionRule},
      {AdvanceRule, HalfActionRule},
      {GarbageConditionRule, GarbageActionRule},
      {AdvanceRule, MeddlingConditionRule},
      {RedactRule},
      {BogusStateRule},
      {LoopRule},
      {StumbleRule, NotifyRule} }

\* The catalogs of the runs of one client on a store that holds a workflow.
SeededCatalogs == { {CompleteRule, ReopenRule}, {FailRule, RetryRule}, {HandOverRule} }

\* The catalog of the runs in which requests overlap.
ConcurrentCatalogs == { {AdvanceRule, NotifyRule}, {AfterHoursRule} }

\* eval(rule.condition, {}, env): "true", "false", or "error" when it raises.
EvalCondition(cond, wf) ==
    CASE cond.kind = "state_eq" -> IF wf.state = cond.arg THEN "true" ELSE "false"
      [] cond.kind = "raises" -> "error"
      [] cond.kind = "unparsable" -> "error"
      [] cond.kind = "assigns_then_raises" -> "error"
      [] cond.kind = "clock_past" -> IF now > cond.arg THEN "true" ELSE "false"

\* The statements eval(rule.condition, {}, env) runs on the Workflow object
\* before it returns or raises: eval takes any expression, calls included.
ConditionStatements(cond) ==
    IF cond.kind = "assigns_then_raises" THEN <<[kind |-> "set_state", arg |-> cond.arg]>>
    ELSE <<>>

\* The Workflow object after eval(rule.condition, {}, env).
ConditionEffect(cond, wf) ==
    IF cond.kind = "assigns_then_raises" THEN [wf EXCEPT !.state = cond.arg] ELSE wf

\* Statements under a transition table in which COMPLETED and FAILED are final;
\* C22 tells it from ApplyEffect.
ApplyEffectFinalStates(eff, wf) ==
    CASE eff.kind = "set_state" ->
            IF wf.state \in {COMPLETED, FAILED} THEN wf ELSE [wf EXCEPT !.state = eff.arg]
      [] eff.kind = "append_event" ->
            [wf EXCEPT !.new_events = Append(@, [event_type |-> eff.arg])]
      [] OTHER -> wf

\* One statement of an action, run against the Workflow object.
ApplyEffect(eff, wf) ==
    CASE eff.kind = "set_state" -> [wf EXCEPT !.state = eff.arg]
      [] eff.kind = "append_event" ->
            [wf EXCEPT !.new_events = Append(@, [event_type |-> eff.arg])]
      [] eff.kind = "retype_events" ->
            \* workflow.events is loaded from the table when the statement
            \* reaches it; every Event of the collection is assigned to.
            [wf EXCEPT !.new_events = [i \in 1..Len(@) |-> [event_type |-> eff.arg]],
                       !.retyped = [ids |-> {e \in 1..Len(events) :
                                               events[e].workflow_id = wf.workflow_id},
                                    event_type |-> eff.arg]]
      [] eff.kind = "move_tasks" ->
            \* workflow.tasks is loaded from the table when the statement
            \* reaches it; the foreign key of every Task of it is assigned to.
            [wf EXCEPT !.moved = [ids |-> {t \in 1..Len(tasks) :
                                             tasks[t].workflow_id = wf.workflow_id},
                                  workflow_id |-> eff.arg]]
      [] OTHER -> wf

\* exec(rule.action, {}, env) from statement i on: the statements run in order
\* on the one Workflow object, and a statement that raises ends the action with
\* what the earlier statements did left in place.  A statement that loops for
\* ever is where exec stays (hung): it neither returns nor raises.
RECURSIVE ExecFrom(_, _, _)
ExecFrom(effs, i, wf) ==
    IF i > Len(effs) THEN [wf |-> wf, applied |-> i - 1, raised |-> FALSE, hung |-> FALSE]
    ELSE IF effs[i].kind = "raises"
    THEN [wf |-> wf, applied |-> i - 1, raised |-> TRUE, hung |-> FALSE]
    ELSE IF effs[i].kind = "loops_forever"
    THEN [wf |-> wf, applied |-> i - 1, raised |-> FALSE, hung |-> TRUE]
    ELSE ExecFrom(effs, i + 1, ApplyEffect(effs[i], wf))

\* An action that is taken back as a whole when one of its statements raises;
\* C32 tells it from ExecAction.
ExecActionAtomic(action, wf) ==
    LET x == IF action.kind = "unparsable"
             THEN [wf |-> wf, applied |-> 0, raised |-> TRUE, hung |-> FALSE]
             ELSE ExecFrom(action.effects, 1, wf)
    IN
    IF x.raised THEN [wf |-> wf, applied |-> 0, raised |-> TRUE, hung |-> FALSE] ELSE x

ExecAction(action, wf) ==
    IF action.kind = "unparsable"
    THEN [wf |-> wf, applied |-> 0, raised |-> TRUE, hung |-> FALSE]
    ELSE ExecFrom(action.effects, 1, wf)

\* The body of the loop for one rule: try / eval / exec / except Exception.
\* A rule that is spent once an event of its action is in the log of the
\* workflow; C31 tells it from EvalRule.
EvalRuleOnce(rule, wf) ==
    LET c == EvalCondition(rule.condition, wf)
        spent == /\ rule.action.kind = "effects"
                 /\ \E k \in 1..Len(rule.action.effects) :
                       /\ rule.action.effects[k].kind = "append_event"
                       /\ \E e \in 1..Len(events) :
                             /\ events[e].workflow_id = wf.workflow_id
                             /\ events[e].event_type = rule.action.effects[k].arg
    IN
    IF c = "error"
    THEN [wf |-> ConditionEffect(rule.condition, wf), outcome |-> "condition_error",
          applied |-> 0]
    ELSE IF c = "false" \/ spent
    THEN [wf |-> wf, outcome |-> "skipped", applied |-> 0]
    ELSE LET x == ExecAction(rule.action, wf) IN
         [wf |-> x.wf,
          outcome |-> IF x.hung THEN "hung" ELSE IF x.raised THEN "action_error" ELSE "fired",
          applied |-> x.applied]

EvalRule(rule, wf) ==
    LET c == EvalCondition(rule.condition, wf) IN
    IF c = "error"
    THEN [wf |-> ConditionEffect(rule.condition, wf), outcome |-> "condition_error",
          applied |-> 0]
    ELSE IF c = "false"
    THEN [wf |-> wf, outcome |-> "skipped", applied |-> 0]
    ELSE LET x == ExecAction(rule.action, wf) IN
         [wf |-> x.wf,
          outcome |-> IF x.hung THEN "hung" ELSE IF x.raised THEN "action_error" ELSE "fired",
          applied |-> x.applied]

\* A listing that yields the newest rule first; C4 tells it from list_rules.
list_rules_newest_first ==
    [i \in 1..Len(rules) |->
        LET id == Len(rules) + 1 - i IN
        [id |-> id, condition |-> rules[id].condition, action |-> rules[id].action]]

\* list_rules(db): db.query(Rule).all(), the scan of the rules table, which
\* yields the rows in primary-key order.
list_rules == [i \in 1..Len(rules) |-> [id |-> i, condition |-> rules[i].condition,
                                        action |-> rules[i].action]]

\* A pass in which every condition is evaluated on the state the workflow had
\* when the pass began; C6 tells it from PassFrom.
RECURSIVE PassFromStale(_, _, _, _)
PassFromStale(rs, i, wf, log) ==
    IF i > Len(rs) THEN [wf |-> wf, log |-> log]
    ELSE LET first == IF log = <<>> THEN wf.state ELSE log[1].seen_state
             r == EvalRule(rs[i], [wf EXCEPT !.state = first])
             after == [r.wf EXCEPT !.state = IF @ # first THEN @ ELSE wf.state]
         IN
         PassFromStale(rs, i + 1, after,
                       Append(log, [id |-> rs[i].id, outcome |-> r.outcome,
                                    applied |-> r.applied, seen_state |-> first]))

\* A pass that stops at the first rule that raises; C5 tells it from PassFrom.
RECURSIVE PassFromAborting(_, _, _, _)
PassFromAborting(rs, i, wf, log) ==
    IF i > Len(rs) THEN [wf |-> wf, log |-> log]
    ELSE LET r == EvalRule(rs[i], wf)
             entry == [id |-> rs[i].id, outcome |-> r.outcome, applied |-> r.applied,
                       seen_state |-> wf.state]
         IN
         IF r.outcome \in {"condition_error", "action_error"}
         THEN [wf |-> r.wf, log |-> Append(log, entry)]
         ELSE PassFromAborting(rs, i + 1, r.wf, Append(log, entry))

\* for rule in rules: the loop from position i on, with the log of what it
\* did: one entry per rule visited, in visiting order.
RECURSIVE PassFrom(_, _, _, _)
PassFrom(rs, i, wf, log) ==
    IF i > Len(rs) THEN [wf |-> wf, log |-> log]
    ELSE LET r == EvalRule(rs[i], wf)
             entry == [id |-> rs[i].id, outcome |-> r.outcome, applied |-> r.applied,
                       seen_state |-> wf.state]
         IN
         IF r.outcome = "hung"
         THEN [wf |-> r.wf, log |-> Append(log, entry)]
         ELSE PassFrom(rs, i + 1, r.wf, Append(log, entry))

\* A pass that starts over once when it changed the workflow's state; C7 tells
\* it from EvaluatePass.
EvaluatePassAgain(rs, wf) ==
    LET first == PassFrom(rs, 1, wf, <<>>) IN
    IF first.wf.state # wf.state THEN PassFrom(rs, 1, first.wf, first.log) ELSE first

\* evaluate_rules_for_workflow, after the rules were listed.
EvaluatePass(rs, wf) == PassFrom(rs, 1, wf, <<>>)


\* ------------------------------------------------------------ rule store

\* create_rule(db, rule_in): the row is built from the request as it is and
\* committed; the condition and the action are not looked at.
create_rule(r) ==
    /\ Len(rules) < MaxRules
    /\ rules' = Append(rules, r)
    /\ UNCHANGED <<workflows, tasks, events, now, sessionVars, runVars, demoVars>>

\* ---------------------------------------------------- gateway operations

\* The arguments a request carries.
Request(kind, wid, tid, st, name, its, ts) ==
    [kind |-> kind, workflow_id |-> wid, task_id |-> tid, new_state |-> st,
     name |-> name, initial_tasks |-> its, ts |-> ts, tick |-> 0]

\* get_workflow(db, workflow_id): the row, or None.
get_workflow(wid) == IF wid \in 1..Len(workflows) THEN wid ELSE 0

\* A task lookup by id alone, whatever workflow the path names; C11 tells it from
\* query_task.
query_task_any_workflow(wid, tid) == IF tid \in 1..Len(tasks) THEN tid ELSE 0

\* db.query(Task).filter(Task.id == task_id, Task.workflow_id == workflow_id).first()
query_task(wid, tid) ==
    IF tid \in 1..Len(tasks) /\ tasks[tid].workflow_id = wid THEN tid ELSE 0

\* What every handler does on entry: a fresh Session, nothing loaded.
Enter(s, request, next) ==
    /\ op' = [op EXCEPT ![s] = request]
    /\ pc' = [pc EXCEPT ![s] = next]
    /\ pre' = IF s = "s1" THEN db ELSE pre
    /\ mem' = [mem EXCEPT ![s] = NoMem]
    /\ loaded' = [loaded EXCEPT ![s] = <<>>]
    /\ passlog' = [passlog EXCEPT ![s] = <<>>]
    /\ passes' = [passes EXCEPT ![s] = 0]
    /\ wrote' = [wrote EXCEPT ![s] = NoWrote]

\* A handler that leaves a task row behind before it answers 404; C10 tells it
\* from RaiseNotFound.
RaiseNotFoundAfterInsert(s, request) ==
    /\ Enter(s, request, "notfound")
    /\ tasks' = Append(tasks, [workflow_id |-> request.workflow_id, name |-> request.name,
                               state |-> "pending", updated_at |-> now])
    /\ UNCHANGED <<workflows, events, rules, now, runVars, demoVars>>

\* raise ValueError(... not found): the handler answers 404, nothing was staged.
RaiseNotFound(s, request) ==
    /\ Enter(s, request, "notfound")
    /\ UNCHANGED <<tableVars, now, runVars, demoVars>>

\* The row of workflow wid holds a state that names no member of WorkflowState:
\* loading it raises LookupError in the Enum column's result processor.
Unreadable(wid) == wid \in 1..Len(workflows) /\ workflows[wid].state \notin WorkflowState

\* The lookup of the handler raises LookupError: the request is answered with
\* an error and nothing was staged.
RaiseLookupError(s, request) ==
    /\ Enter(s, request, "failed")
    /\ UNCHANGED <<tableVars, now, runVars, demoVars>>

\* The primitive edit is staged in the Session and the workflow's timestamp is
\* taken from the clock (update_timestamp); the first commit comes next.
Begin(s, request) ==
    /\ now < MaxClock
    /\ now' = now + 1
    /\ Enter(s, [request EXCEPT !.ts = now + 1], "commit1")

Stage(s, request) ==
    /\ Begin(s, request)
    /\ UNCHANGED <<tableVars, runVars, demoVars>>

\* task.workflow is None for a task whose workflow_id names no row, and
\* workflow.update_timestamp() raises AttributeError: the request is answered
\* with an error and the session is rolled back.
RaiseAttributeError(s, request) ==
    /\ Enter(s, request, "failed")
    /\ UNCHANGED <<tableVars, now, runVars, demoVars>>

\* create_workflow up to its first commit.
create_workflow(s, its) ==
    /\ Ready(s)
    /\ Stage(s, Request("create_workflow", 0, 0, "none", "none", its, 0))

\* add_task up to its first commit.
add_task(s, wid, name) ==
    /\ Ready(s)
    /\ LET request == Request("add_task", wid, 0, "none", name, <<>>, 0) IN
       IF get_workflow(wid) = 0
       THEN RaiseNotFound(s, request)
       ELSE IF Unreadable(wid)
       THEN RaiseLookupError(s, request)
       ELSE Stage(s, request)

\* add_event up to its first commit.
add_event(s, wid, event_type) ==
    /\ Ready(s)
    /\ LET request == Request("add_event", wid, 0, "none", event_type, <<>>, 0) IN
       IF get_workflow(wid) = 0
       THEN RaiseNotFound(s, request)
       ELSE IF Unreadable(wid)
       THEN RaiseLookupError(s, request)
       ELSE Stage(s, request)

\* update_task_state up to its first commit.
update_task_state(s, wid, tid, new_state) ==
    /\ Ready(s)
    /\ LET request == Request("update_task_state", wid, tid, new_state, "none", <<>>, 0) IN
       IF query_task(wid, tid) = 0
       THEN RaiseNotFound(s, request)
       ELSE IF get_workflow(wid) = 0
       THEN RaiseAttributeError(s, request)
       ELSE IF Unreadable(wid)
       THEN RaiseLookupError(s, request)
       ELSE Stage(s, request)

\* Task rows inserted last-first; C15 tells it from NewTasks.
NewTasksReversed(request, wid) ==
    CASE request.kind = "create_workflow" ->
            [i \in 1..Len(request.initial_tasks) |->
                [workflow_id |-> wid,
                 name |-> request.initial_tasks[Len(request.initial_tasks) + 1 - i],
                 state |-> "pending", updated_at |-> now]]
      [] request.kind = "add_task" ->
            <<[workflow_id |-> wid, name |-> request.name,
               state |-> "pending", updated_at |-> now]>>
      [] OTHER -> <<>>

\* The rows the first commit of a request inserts into tasks, for workflow wid.
NewTasks(request, wid) ==
    CASE request.kind = "create_workflow" ->
            [i \in 1..Len(request.initial_tasks) |->
                [workflow_id |-> wid, name |-> request.initial_tasks[i],
                 state |-> "pending", updated_at |-> now]]
      [] request.kind = "add_task" ->
            <<[workflow_id |-> wid, name |-> request.name,
               state |-> "pending", updated_at |-> now]>>
      [] OTHER -> <<>>

\* The rows the first commit of a request inserts into events.
NewEvents(request, wid) ==
    IF request.kind = "add_event"
    THEN <<[workflow_id |-> wid, event_type |-> request.name, tick |-> request.tick]>>
    ELSE <<>>

\* The ids a table gives to n rows inserted now.
NewIds(table, n) == [i \in 1..n |-> Len(table) + i]

\* A gateway in which update_task_state returns without a pass; C8 tells it from
\* AfterFirstCommit.
AfterFirstCommitNoPass(request) ==
    IF request.kind = "update_task_state" THEN "done" ELSE "refresh"

\* Where a handler goes after its first commit: db.refresh(workflow), then the
\* pass, whatever the operation.
AfterFirstCommit(request) == "refresh"

\* The first db.commit() of a gateway operation: the staged primitive edit and
\* the workflow's new updated_at are flushed and committed.
\* A first commit that also moves the workflow on when the update leaves all of
\* its tasks completed; C30 tells it from StagedWorkflows.
StagedWorkflowsAdvancing(r, wid) ==
    IF r.kind = "create_workflow"
    THEN Append(workflows, [state |-> ORDERED, updated_at |-> r.ts])
    ELSE IF /\ r.kind = "update_task_state"
            /\ r.new_state = "completed"
            /\ \A t \in 1..Len(tasks) :
                  (tasks[t].workflow_id = wid /\ t # r.task_id) => tasks[t].state = "completed"
    THEN [workflows EXCEPT ![wid].updated_at = r.ts, ![wid].state = COMPLETED]
    ELSE [workflows EXCEPT ![wid].updated_at = r.ts]

\* The workflows table as the first commit of request r writes it: the new row
\* of create_workflow, made as ORDERED, or update_timestamp() on the row.
StagedWorkflows(r, wid) ==
    IF r.kind = "create_workflow"
    THEN Append(workflows, [state |-> ORDERED, updated_at |-> r.ts])
    ELSE [workflows EXCEPT ![wid].updated_at = r.ts]

Commit1(s) ==
    /\ pc[s] = "commit1"
    /\ LET r == op[s]
           wid == IF r.kind = "create_workflow" THEN Len(workflows) + 1 ELSE r.workflow_id
           nt == NewTasks(r, wid)
           ne == NewEvents(r, wid)
       IN
       /\ workflows' = StagedWorkflows(r, wid)
       /\ tasks' =
            IF r.kind = "update_task_state"
            THEN [tasks EXCEPT ![r.task_id].state = r.new_state,
                               ![r.task_id].updated_at = r.ts]
            ELSE tasks \o nt
       /\ events' = events \o ne
       /\ wrote' = [wrote EXCEPT ![s] =
                      [workflow |-> wid,
                       tasks |-> IF r.kind = "update_task_state" THEN <<r.task_id>>
                                 ELSE NewIds(tasks, Len(nt)),
                       events |-> NewIds(events, Len(ne)),
                       rule_events |-> <<>>]]
    /\ pc' = [pc EXCEPT ![s] = AfterFirstCommit(op[s])]
    /\ UNCHANGED <<rules, now, op, mem, loaded, passlog, passes, pre, runVars, demoVars>>

\* A db.commit() that raises: the exception leaves the handler, get_db rolls
\* the Session back, and the request is answered with an error.
CommitFails(s) ==
    /\ pc[s] \in {"commit1", "commit2"}
    /\ pc' = [pc EXCEPT ![s] = "failed"]
    /\ UNCHANGED <<tableVars, now, op, mem, loaded, passlog, passes, pre, wrote, runVars, demoVars>>

\* db.refresh(workflow) after the first commit: the Workflow object is loaded
\* again from its row.
Refresh(s) ==
    /\ pc[s] = "refresh"
    /\ LET wid == wrote[s].workflow IN
       mem' = [mem EXCEPT ![s] =
                 [workflow_id |-> wid, loaded_state |-> workflows[wid].state,
                  state |-> workflows[wid].state, new_events |-> <<>>,
                  retyped |-> NoRetyped, moved |-> NoMoved]]
    /\ pc' = [pc EXCEPT ![s] = "listrules"]
    /\ UNCHANGED <<tableVars, now, op, loaded, passlog, passes, pre, wrote, runVars, demoVars>>

\* evaluate_rules_for_workflow is entered: rules = list_rules(db).
LoadRules(s) ==
    /\ pc[s] = "listrules"
    /\ passes' = [passes EXCEPT ![s] = @ + 1]
    /\ loaded' = [loaded EXCEPT ![s] = list_rules]
    /\ pc' = [pc EXCEPT ![s] = "eval"]
    /\ UNCHANGED <<tableVars, now, op, mem, passlog, pre, wrote, runVars, demoVars>>

\* A pass that lists the rules again when it evaluates them; C18 tells it from
\* Evaluate.
EvaluateRelisting(s) ==
    /\ pc[s] = "eval"
    /\ LET r == EvaluatePass(list_rules, mem[s]) IN
       /\ mem' = [mem EXCEPT ![s] = r.wf]
       /\ passlog' = [passlog EXCEPT ![s] = r.log]
    /\ pc' = [pc EXCEPT ![s] = "commit2"]
    /\ UNCHANGED <<tableVars, now, op, loaded, passes, pre, wrote, runVars, demoVars>>

\* A pass that lets the failure of a rule leave the handler; C12 tells it from
\* Evaluate.
EvaluateRaising(s) ==
    /\ pc[s] = "eval"
    /\ LET r == EvaluatePass(loaded[s], mem[s])
           raised == \E i \in 1..Len(r.log) :
                        r.log[i].outcome \in {"condition_error", "action_error"}
       IN
       /\ mem' = [mem EXCEPT ![s] = r.wf]
       /\ passlog' = [passlog EXCEPT ![s] = r.log]
       /\ pc' = [pc EXCEPT ![s] = IF raised THEN "failed" ELSE "commit2"]
    /\ UNCHANGED <<tableVars, now, op, loaded, passes, pre, wrote, runVars, demoVars>>

\* The pass over rs on wf comes to an end.
Returns(rs, wf) ==
    LET r == EvaluatePass(rs, wf) IN
    \A i \in 1..Len(r.log) : r.log[i].outcome # "hung"

\* The loop of evaluate_rules_for_workflow over the rules it listed, when it
\* comes to an end; when it does not, the thread stays in it.
Evaluate(s) ==
    /\ pc[s] = "eval"
    /\ Returns(loaded[s], mem[s])
    /\ LET r == EvaluatePass(loaded[s], mem[s]) IN
       /\ mem' = [mem EXCEPT ![s] = r.wf]
       /\ passlog' = [passlog EXCEPT ![s] = r.log]
    /\ pc' = [pc EXCEPT ![s] = "commit2"]
    /\ UNCHANGED <<tableVars, now, op, loaded, passes, pre, wrote, runVars, demoVars>>

\* Event rows that all go to the first workflow; C19 tells it from PassEvents.
PassEventsToFirst(m) ==
    [i \in 1..Len(m.new_events) |->
        [workflow_id |-> 1, event_type |-> m.new_events[i].event_type, tick |-> 0]]

\* The rows of the Events the pass appended to workflow.events.
PassEvents(m) ==
    [i \in 1..Len(m.new_events) |->
        [workflow_id |-> m.workflow_id, event_type |-> m.new_events[i].event_type,
         tick |-> 0]]

\* A flush that writes the events of the pass and not the state it assigned;
\* C14 tells it from Flushed.
FlushedWithoutState(m) ==
    [workflows |-> workflows, tasks |-> tasks, events |-> events \o PassEvents(m)]

\* What the flush of the second commit writes: the state column when the
\* object's state differs from the value it was loaded with, the columns of the
\* Events the pass assigned to, and one events row for every Event the pass
\* appended to workflow.events.
Flushed(m) ==
    [workflows |-> IF m.state # m.loaded_state
                   THEN [workflows EXCEPT ![m.workflow_id].state = m.state]
                   ELSE workflows,
     tasks |-> [t \in 1..Len(tasks) |->
                   IF t \in m.moved.ids
                   THEN [tasks[t] EXCEPT !.workflow_id = m.moved.workflow_id]
                   ELSE tasks[t]],
     events |-> [e \in 1..Len(events) |->
                    IF e \in m.retyped.ids
                    THEN [events[e] EXCEPT !.event_type = m.retyped.event_type]
                    ELSE events[e]] \o PassEvents(m)]

\* Where a handler goes after its second commit: db.refresh(workflow) loads the
\* row again, which raises LookupError when the state column holds a string
\* that names no member of WorkflowState; otherwise the handler returns.
AfterSecondCommit(m) == IF m.state \in WorkflowState THEN "done" ELSE "failed"

\* The second db.commit(): what the pass changed on the Workflow object is
\* flushed and committed; then db.refresh(workflow) and the response.
Commit2(s) ==
    /\ pc[s] = "commit2"
    /\ workflows' = Flushed(mem[s]).workflows
    /\ tasks' = Flushed(mem[s]).tasks
    /\ events' = Flushed(mem[s]).events
    /\ wrote' = [wrote EXCEPT ![s].rule_events = NewIds(events, Len(mem[s].new_events))]
    /\ pc' = [pc EXCEPT ![s] = AfterSecondCommit(mem[s])]
    /\ UNCHANGED <<rules, now, op, mem, loaded, passlog, pre, passes, runVars, demoVars>>

\* The response goes out and get_db closes the Session (db.close()): nothing of
\* the request is left in the process.
Return(s) ==
    /\ pc[s] \in {"done", "failed", "notfound"}
    /\ ~sim[s].active
    /\ pc' = [pc EXCEPT ![s] = "idle"]
    /\ op' = [op EXCEPT ![s] = NoOp]
    /\ pre' = IF s = "s1" THEN NoPre ELSE pre
    /\ mem' = [mem EXCEPT ![s] = NoMem]
    /\ loaded' = [loaded EXCEPT ![s] = <<>>]
    /\ passlog' = [passlog EXCEPT ![s] = <<>>]
    /\ passes' = [passes EXCEPT ![s] = 0]
    /\ wrote' = [wrote EXCEPT ![s] = NoWrote]
    /\ sim' = [sim EXCEPT ![s] = NoSim]
    /\ UNCHANGED <<tableVars, now, runVars, DEMO_ROWS, DEMO_BY_ID, seeding>>

\* ----------------------------------------------------------- the system

\* One client alone, or requests that overlap.
\* ----------------------------------------------------------------- auth

ENTERPRISE_KEYS ==
    ("demo-admin-key" :> "admin") @@ ("demo-operator-key" :> "operator")
        @@ ("demo-auditor-key" :> "auditor")

\* require_auth(x_api_key): the UserContext, or the HTTPException raised.
require_auth(x_api_key) ==
    IF x_api_key \notin DOMAIN ENTERPRISE_KEYS
    THEN [status |-> 401, user |-> NoUser]
    ELSE [status |-> 200, user |-> [api_key |-> x_api_key, role |-> ENTERPRISE_KEYS[x_api_key]]]

\* A checker that lets the admin role pass whatever role is required; C29 tells
\* it from require_role.
require_role_or_admin(required, x_api_key) ==
    LET r == require_auth(x_api_key) IN
    IF r.status # 200 THEN r
    ELSE IF r.user.role # required /\ r.user.role # "admin"
    THEN [status |-> 403, user |-> NoUser]
    ELSE r

\* require_role(required)'s checker on a request with the header x_api_key:
\* Depends(require_auth) is resolved first, then the roles are compared.
require_role(required, x_api_key) ==
    LET r == require_auth(x_api_key) IN
    IF r.status # 200 THEN r
    ELSE IF r.user.role # required
    THEN [status |-> 403, user |-> NoUser]
    ELSE r

\* No request has been through the auth module.
Anonymous == auth = [s \in Sessions |-> NoAuth]

\* A request whose endpoint depends on require_auth.
depends_require_auth(s, x_api_key) ==
    /\ auth[s].call = "none"
    /\ LET r == require_auth(x_api_key) IN
       auth' = [auth EXCEPT ![s] = [call |-> "require_auth", x_api_key |-> x_api_key,
                                    required |-> "none", status |-> r.status,
                                    user |-> r.user]]
    /\ UNCHANGED <<tableVars, now, sessionVars, catalog, clients, demoVars>>

\* A request whose endpoint depends on require_role(required).
depends_require_role(s, required, x_api_key) ==
    /\ auth[s].call = "none"
    /\ LET r == require_role(required, x_api_key) IN
       auth' = [auth EXCEPT ![s] = [call |-> "require_role", x_api_key |-> x_api_key,
                                    required |-> required, status |-> r.status,
                                    user |-> r.user]]
    /\ UNCHANGED <<tableVars, now, sessionVars, catalog, clients, demoVars>>

\* The request is answered.
AuthReturn(s) ==
    /\ auth[s].call # "none"
    /\ auth' = [auth EXCEPT ![s] = NoAuth]
    /\ UNCHANGED <<tableVars, now, sessionVars, catalog, clients, demoVars>>

\* ------------------------------------------------------------ dashboard

\* DEMO_SCENARIOS, in the order of the dict: scenario id and insurance_result.
DEMO_SCENARIOS ==
    << [id |-> "happy_path", insurance_result |-> "accepted"],
       [id |-> "insurance_rejected_outdated", insurance_result |-> "rejected"],
       [id |-> "prior_auth_required", insurance_result |-> "pa_required"],
       [id |-> "no_refills_prescriber", insurance_result |-> "accepted"],
       [id |-> "no_insurance_discount_card", insurance_result |-> "no_insurance"] >>

\* DEMO_SCENARIOS.get(sid, DEMO_SCENARIOS["happy_path"])
ScenarioGet(sid) ==
    IF \E i \in 1..Len(DEMO_SCENARIOS) : DEMO_SCENARIOS[i].id = sid
    THEN DEMO_SCENARIOS[CHOOSE i \in 1..Len(DEMO_SCENARIOS) : DEMO_SCENARIOS[i].id = sid]
    ELSE DEMO_SCENARIOS[1]

\* _mk_case(sid, idx) when DEMO_ROWS holds n rows: the row it appends.
mk_case(sid, n) ==
    LET scen == ScenarioGet(sid)
        raw == [tasks |-> <<[repeat |-> 0]>>,
                events |-> << [event_type |-> "case_seeded", tick |-> 0],
                              [event_type |-> "queue_changed", tick |-> 0],
                              [event_type |-> "insurance_adjudicated", tick |-> 0] >>]
    IN
    [id |-> -(n + 1), insurance |-> scen.insurance_result,
     tasks |-> Len(raw.tasks), events |-> Len(raw.events), raw |-> raw]

\* The scenario ids one call of seed_demo_cases makes cases of.
SeedList(scenario_id, seed_all) ==
    IF seed_all THEN [i \in 1..Len(DEMO_SCENARIOS) |-> DEMO_SCENARIOS[i].id]
    ELSE <<scenario_id>>

\* Simulated ticks held by the rows of the registry.
RECURSIVE DemoTicks(_)
DemoTicks(rows) ==
    IF rows = <<>> THEN 0
    ELSE Len(SelectSeq(rows[1].raw.events, LAMBDA e : e.event_type = "demo_repetition_tick"))
         + DemoTicks(Tail(rows))

\* A seeding that also stores each demo case as a workflow row; C25 tells it
\* from seed_demo_cases.
seed_demo_cases_stored(scenario_id, seed_all) ==
    LET sids == SeedList(scenario_id, seed_all)
        n == Len(DEMO_ROWS)
        added == [i \in 1..Len(sids) |-> mk_case(sids[i], n + i - 1)]
    IN
    /\ n + Len(sids) <= MaxDemoRows
    /\ DEMO_ROWS' = DEMO_ROWS \o added
    /\ DEMO_BY_ID' = [d \in DOMAIN DEMO_BY_ID \cup {added[i].id : i \in 1..Len(added)} |->
                        IF d \in DOMAIN DEMO_BY_ID THEN DEMO_BY_ID[d] ELSE -d]
    /\ workflows' = workflows \o [i \in 1..Len(sids) |-> [state |-> ORDERED, updated_at |-> now]]
    /\ UNCHANGED <<tasks, events, rules, now, sessionVars, runVars, sim, seeding>>

\* POST /dashboard/api/seed
seed_demo_cases(scenario_id, seed_all) ==
    LET sids == SeedList(scenario_id, seed_all)
        n == Len(DEMO_ROWS)
        added == [i \in 1..Len(sids) |-> mk_case(sids[i], n + i - 1)]
    IN
    /\ n + Len(sids) <= MaxDemoRows
    /\ DEMO_ROWS' = DEMO_ROWS \o added
    /\ DEMO_BY_ID' = [d \in DOMAIN DEMO_BY_ID \cup {added[i].id : i \in 1..Len(added)} |->
                        IF d \in DOMAIN DEMO_BY_ID THEN DEMO_BY_ID[d] ELSE -d]
    /\ UNCHANGED <<tableVars, now, sessionVars, runVars, sim, seeding>>

\* seed_demo_cases statement by statement, as a thread of the pool runs it next
\* to other threads: the request is taken and its cases are listed.
seed_begin(s, scenario_id, seed_all) ==
    LET sids == SeedList(scenario_id, seed_all)
        pending == Len(seeding["s1"].todo) + Len(seeding["s2"].todo)
    IN
    /\ seeding[s].at = "idle"
    /\ Len(DEMO_ROWS) + pending + Len(sids) <= MaxDemoRows
    /\ seeding' = [seeding EXCEPT ![s] = [at |-> "len", todo |-> sids, demo_id |-> 0,
                                          row |-> 0]]
    /\ UNCHANGED <<tableVars, now, sessionVars, runVars, DEMO_ROWS, DEMO_BY_ID, sim>>

\* _mk_case: demo_id = -(len(DEMO_ROWS) + 1)
mk_case_len(s) ==
    /\ seeding[s].at = "len"
    /\ seeding' = [seeding EXCEPT ![s].demo_id = -(Len(DEMO_ROWS) + 1), ![s].at = "append"]
    /\ UNCHANGED <<tableVars, now, sessionVars, runVars, DEMO_ROWS, DEMO_BY_ID, sim>>

\* _mk_case: DEMO_ROWS.append(row), the row made with the demo_id read before.
mk_case_append(s) ==
    /\ seeding[s].at = "append"
    /\ DEMO_ROWS' = Append(DEMO_ROWS, mk_case(seeding[s].todo[1], -seeding[s].demo_id - 1))
    /\ seeding' = [seeding EXCEPT ![s].row = Len(DEMO_ROWS) + 1, ![s].at = "index"]
    /\ UNCHANGED <<tableVars, now, sessionVars, runVars, DEMO_BY_ID, sim>>

\* _mk_case: DEMO_BY_ID[demo_id] = row; then the next case, or the answer.
mk_case_index(s) ==
    /\ seeding[s].at = "index"
    /\ DEMO_BY_ID' = [d \in DOMAIN DEMO_BY_ID \cup {seeding[s].demo_id} |->
                        IF d = seeding[s].demo_id THEN seeding[s].row ELSE DEMO_BY_ID[d]]
    /\ seeding' = [seeding EXCEPT ![s] =
                      IF Len(seeding[s].todo) = 1 THEN NoSeeding
                      ELSE [at |-> "len", todo |-> Tail(seeding[s].todo), demo_id |-> 0,
                            row |-> 0]]
    /\ UNCHANGED <<tableVars, now, sessionVars, runVars, DEMO_ROWS, sim>>

\* _demo_repeat_tasks(row, copies): the tasks of the row afterwards.
RECURSIVE demo_repeat_tasks(_, _)
demo_repeat_tasks(tasklist, copies) ==
    LET ts == IF tasklist = <<>> THEN <<[repeat |-> 0]>> ELSE tasklist IN
    IF copies <= 0 THEN ts
    ELSE demo_repeat_tasks(Append(ts, [repeat |-> Len(ts)]), copies - 1)

\* A demo branch that leaves the counters of the row as they were; C34 tells it
\* from SimulateDemo.
SimulateDemoStale(row, cycles, repeat_tasks) ==
    LET evs == row.raw.events \o
               [i \in 1..cycles |-> [event_type |-> "demo_repetition_tick", tick |-> i]]
        tks == IF repeat_tasks THEN demo_repeat_tasks(row.raw.tasks, cycles)
               ELSE row.raw.tasks
    IN
    [row EXCEPT !.raw = [tasks |-> tks, events |-> evs]]

\* The demo branch of simulate_repetition on a row.
SimulateDemo(row, cycles, repeat_tasks) ==
    LET evs == row.raw.events \o
               [i \in 1..cycles |-> [event_type |-> "demo_repetition_tick", tick |-> i]]
        tks == IF repeat_tasks THEN demo_repeat_tasks(row.raw.tasks, cycles)
               ELSE row.raw.tasks
    IN
    [row EXCEPT !.raw = [tasks |-> tks, events |-> evs],
                !.events = Len(evs), !.tasks = Len(tks)]

\* What simulate_repetition answers when it does not go to the gateway.
Answer(s, request, status, did, next) ==
    /\ Enter(s, request, next)
    /\ sim' = [sim EXCEPT ![s] = [active |-> FALSE, workflow_id |-> request.workflow_id,
                                  cycles |-> request.cycles, did |-> did,
                                  status |-> status, log |-> <<>>]]

\* A loop whose every call writes tick 1; C27 tells it from TickRequest.
TickRequestOne(wid, i) ==
    [Request("add_event", wid, 0, "none", "demo_repetition_tick", <<>>, 0) EXCEPT !.tick = 1]

\* The request of the add_event call of cycle i.
TickRequest(wid, i) ==
    [Request("add_event", wid, 0, "none", "demo_repetition_tick", <<>>, 0) EXCEPT !.tick = i]

\* What one returned add_event call of the loop leaves in the record of the
\* simulation: the tick it wrote, the passes of the call and what its pass saw.
TickDone(s) ==
    [tick |-> op[s].tick, events |-> wrote[s].events, passes |-> passes[s],
     seen_state |-> mem[s].loaded_state, state |-> mem[s].state]

\* A handler that looks the id up before it looks at cycles; C28 tells it from
\* SimulateBranch.
SimulateBranchLookupFirst(wid, cycles) ==
    IF wid < 0 /\ wid \notin DOMAIN DEMO_BY_ID THEN "demo_not_found"
    ELSE IF wid >= 0 /\ get_workflow(wid) = 0 THEN "not_found"
    ELSE IF cycles < 1 THEN "nothing"
    ELSE IF wid < 0 THEN "demo"
    ELSE IF Unreadable(wid) THEN "unreadable"
    ELSE "stored"

\* The branch simulate_repetition takes, in the order of its tests.
SimulateBranch(wid, cycles) ==
    IF cycles < 1 THEN "nothing"
    ELSE IF wid < 0
    THEN IF wid \notin DOMAIN DEMO_BY_ID THEN "demo_not_found" ELSE "demo"
    ELSE IF get_workflow(wid) = 0 THEN "not_found"
    ELSE IF Unreadable(wid) THEN "unreadable"
    ELSE "stored"

\* POST /dashboard/api/simulate up to the first commit of its first add_event.
simulate_repetition(s, wid, cycles, repeat_tasks) ==
    /\ Ready(s)
    /\ LET request == [kind |-> "simulate_repetition", workflow_id |-> wid, cycles |-> cycles,
                       repeat_tasks |-> repeat_tasks, ts |-> now]
           branch == SimulateBranch(wid, cycles)
       IN
       CASE branch = "nothing" ->
              /\ Answer(s, request, "ok", 0, "done")
              /\ UNCHANGED <<tableVars, now, runVars, DEMO_ROWS, DEMO_BY_ID, seeding>>
         [] branch \in {"demo_not_found", "not_found"} ->
              /\ Answer(s, request, "not_found", 0, "notfound")
              /\ UNCHANGED <<tableVars, now, runVars, DEMO_ROWS, DEMO_BY_ID, seeding>>
         [] branch = "demo" ->
              /\ DemoTicks(DEMO_ROWS) + cycles <= MaxDemoTicks
              /\ DEMO_ROWS' = [DEMO_ROWS EXCEPT ![DEMO_BY_ID[wid]] =
                                 SimulateDemo(@, cycles, repeat_tasks)]
              /\ Answer(s, request, "ok", cycles, "done")
              /\ UNCHANGED <<tableVars, now, runVars, DEMO_BY_ID, seeding>>
         [] branch = "unreadable" ->
              /\ Answer(s, request, "error", 0, "failed")
              /\ UNCHANGED <<tableVars, now, runVars, DEMO_ROWS, DEMO_BY_ID, seeding>>
         [] branch = "stored" ->
              /\ now + cycles <= MaxClock
              /\ Begin(s, TickRequest(wid, 1))
              /\ sim' = [sim EXCEPT ![s] = [active |-> TRUE, workflow_id |-> wid,
                                            cycles |-> cycles, did |-> 0, status |-> "none",
                                            log |-> <<>>]]
              /\ UNCHANGED <<tableVars, runVars, DEMO_ROWS, DEMO_BY_ID, seeding>>

\* for i in range(cycles): the next add_event call of the loop.
simulate_next(s) ==
    /\ pc[s] = "done"
    /\ sim[s].active
    /\ sim[s].did + 1 < sim[s].cycles
    /\ Begin(s, TickRequest(sim[s].workflow_id, sim[s].did + 2))
    /\ sim' = [sim EXCEPT ![s].did = @ + 1, ![s].log = Append(@, TickDone(s))]
    /\ UNCHANGED <<tableVars, runVars, DEMO_ROWS, DEMO_BY_ID, seeding>>

\* The loop is over: get_workflow, to_workflow_read, and the answer.
simulate_done(s) ==
    /\ pc[s] = "done"
    /\ sim[s].active
    /\ sim[s].did + 1 = sim[s].cycles
    /\ sim' = [sim EXCEPT ![s].active = FALSE, ![s].did = @ + 1, ![s].status = "ok",
                          ![s].log = Append(@, TickDone(s))]
    /\ UNCHANGED <<tableVars, now, sessionVars, runVars, DEMO_ROWS, DEMO_BY_ID, seeding>>

\* An add_event call of the loop raised: the exception leaves the handler.
simulate_fails(s) ==
    /\ pc[s] \in {"failed", "notfound"}
    /\ sim[s].active
    /\ sim' = [sim EXCEPT ![s].active = FALSE, ![s].status = "error"]
    /\ UNCHANGED <<tableVars, now, sessionVars, runVars, DEMO_ROWS, DEMO_BY_ID, seeding>>

\* ------------------------------------------------------------------ runs

Alone == Cardinality(clients) = 1

\* What the requests carry.  The overlapping runs take the inputs the overlap
\* needs; a lone client also names ids that do not exist and moves tasks back.
TaskNameInputs == {"x"}
InitialTaskInputs == {<<>>, <<"a", "b">>}
EventTypeInputs == {"note"}
TaskStateInputs == IF Alone THEN {"completed", "pending"} ELSE {"completed"}
Miss == IF Alone THEN 1 ELSE 0
WorkflowIdInputs == 1..(Len(workflows) + Miss)
TaskIdInputs == 1..(Len(tasks) + Miss)

Next ==
    \/ \E r \in catalog : create_rule(r)
    \/ \E s \in clients, its \in InitialTaskInputs : create_workflow(s, its)
    \/ \E s \in clients, wid \in WorkflowIdInputs, name \in TaskNameInputs :
           add_task(s, wid, name)
    \/ \E s \in clients, wid \in WorkflowIdInputs, t \in EventTypeInputs :
           add_event(s, wid, t)
    \/ \E s \in clients, wid \in WorkflowIdInputs, tid \in TaskIdInputs,
          st \in TaskStateInputs : update_task_state(s, wid, tid, st)
    \/ \E s \in clients : Commit1(s)
    \/ \E s \in clients : CommitFails(s)
    \/ \E s \in clients : Refresh(s)
    \/ \E s \in clients : LoadRules(s)
    \/ \E s \in clients : Evaluate(s)
    \/ \E s \in clients : Commit2(s)
    \/ \E s \in clients : Return(s)

\* Requests overlap: FastAPI runs the handlers on a thread pool, each with its
\* own Session.
Init == Seeded /\ Started /\ catalog \in ConcurrentCatalogs /\ clients = Sessions /\ Anonymous

Spec == Init /\ [][Next]_vars

\* One request at a time, on a new database.
InitSeq == Empty /\ Started /\ catalog \in RuleCatalogs /\ clients = {"s1"} /\ Anonymous

SpecSeq == InitSeq /\ [][Next]_vars

\* One request at a time, on a database that holds a workflow with a task.
InitSeeded == Seeded /\ Started /\ catalog \in SeededCatalogs /\ clients = {"s1"} /\ Anonymous

SpecSeeded == InitSeeded /\ [][Next]_vars

\* The auth module on its own: requests with any header and any required role.
KeyInputs == DOMAIN ENTERPRISE_KEYS \cup {"wrong-key", ""}
RequiredInputs == {"admin", "operator", "auditor", "viewer"}

NextAuth ==
    \/ \E s \in clients, k \in KeyInputs : depends_require_auth(s, k)
    \/ \E s \in clients, r \in RequiredInputs, k \in KeyInputs : depends_require_role(s, r, k)
    \/ \E s \in clients : AuthReturn(s)

InitAuth == Empty /\ Started /\ catalog = {} /\ clients = Sessions /\ Anonymous

SpecAuth == InitAuth /\ [][NextAuth]_vars

\* The service as main.py wires it, under one client that sends the header
\* X-API-Key with every request.
InitGate ==
    /\ Empty /\ Started /\ catalog = {AdvanceRule, NotifyRule} /\ clients = {"s1"}
    /\ \E k \in KeyInputs : auth = [s \in Sessions |-> [NoAuth EXCEPT !.x_api_key = k]]

SpecGate == InitGate /\ [][Next]_vars

\* The dashboard in front of the service: one client that seeds demo cases and
\* simulates repetition, on a store that holds a workflow.
ScenarioInputs == {"happy_path", "unknown"}
SimulateIdInputs == {-2, -1, 0, 1, 2}
CyclesInputs == -1..MaxClock

\* The seed endpoint served by the threads of the pool side by side.
NextSeed ==
    \/ \E s \in clients, sid \in ScenarioInputs, seed_all \in BOOLEAN :
           seed_begin(s, sid, seed_all)
    \/ \E s \in clients : mk_case_len(s)
    \/ \E s \in clients : mk_case_append(s)
    \/ \E s \in clients : mk_case_index(s)

InitSeed == Empty /\ Started /\ catalog = {} /\ clients = Sessions /\ Anonymous

SpecSeed == InitSeed /\ [][NextSeed]_vars

NextDash ==
    \/ \E r \in catalog : create_rule(r)
    \/ \E sid \in ScenarioInputs, seed_all \in BOOLEAN : seed_demo_cases(sid, seed_all)
    \/ \E s \in clients, wid \in SimulateIdInputs, cycles \in CyclesInputs,
          repeat_tasks \in BOOLEAN : simulate_repetition(s, wid, cycles, repeat_tasks)
    \/ \E s \in clients : simulate_next(s)
    \/ \E s \in clients : simulate_done(s)
    \/ \E s \in clients : simulate_fails(s)
    \/ \E s \in clients : Commit1(s)
    \/ \E s \in clients : CommitFails(s)
    \/ \E s \in clients : Refresh(s)
    \/ \E s \in clients : LoadRules(s)
    \/ \E s \in clients : Evaluate(s)
    \/ \E s \in clients : Commit2(s)
    \/ \E s \in clients : Return(s)

InitDash == Seeded /\ Started /\ catalog = {AdvanceRule, NotifyRule} /\ clients = {"s1"} /\ Anonymous

SpecDash == InitDash /\ [][NextDash]_vars

\* A thread that serves a request keeps running: whatever step its handler is
\* at is taken in the end.
Runs(s) ==
    Commit1(s) \/ CommitFails(s) \/ Refresh(s) \/ LoadRules(s) \/ Evaluate(s) \/ Commit2(s)

SpecLive == InitSeq /\ [][Next]_vars /\ \A s \in Sessions : WF_vars(Runs(s))

\* ------------------------------------------------------------ what a reader sees

\* The positions of the rows of a table that belong to workflow wid, in id order
\* (workflow.tasks, workflow.events).
RECURSIVE OwnedFrom(_, _, _)
OwnedFrom(table, wid, i) ==
    IF i > Len(table) THEN <<>>
    ELSE (IF table[i].workflow_id = wid THEN <<i>> ELSE <<>>) \o OwnedFrom(table, wid, i + 1)

Owned(table, wid) == OwnedFrom(table, wid, 1)

\* to_workflow_read(workflow) on the tables d: the workflow with its tasks and
\* its events.
to_workflow_read(d, wid) ==
    [id |-> wid,
     state |-> d.workflows[wid].state,
     updated_at |-> d.workflows[wid].updated_at,
     tasks |-> [k \in 1..Len(Owned(d.tasks, wid)) |->
                   LET t == Owned(d.tasks, wid)[k] IN
                   [id |-> t, workflow_id |-> d.tasks[t].workflow_id, name |-> d.tasks[t].name,
                    state |-> d.tasks[t].state, updated_at |-> d.tasks[t].updated_at]],
     events |-> [k \in 1..Len(Owned(d.events, wid)) |->
                   LET e == Owned(d.events, wid)[k] IN
                   [id |-> e, workflow_id |-> d.events[e].workflow_id,
                    event_type |-> d.events[e].event_type, tick |-> d.events[e].tick]]]

\* GET /workflows on the tables d: list_workflows, each through to_workflow_read.
api_list_workflows(d) == [wid \in 1..Len(d.workflows) |-> to_workflow_read(d, wid)]

\* GET /workflows/{id} on the tables d: the workflow, or nothing (404).
api_get_workflow(d, wid) ==
    IF wid \in 1..Len(d.workflows) THEN <<to_workflow_read(d, wid)>> ELSE <<>>

\* ------------------------------------------------------------------ claims

\* The workflow a request in flight works on (0: a create_workflow whose row has
\* no id yet).
Target(s) == IF op[s].kind = "create_workflow" THEN wrote[s].workflow ELSE op[s].workflow_id

\* C1: a reader of the store sees the aggregate of a gateway operation either as
\* it was before the operation or as it is after the primitive edit and the
\* whole rule pass, never the primitive edit without the effects of the pass.
\* Stated where the pass of the request of s1 has run and its second commit is
\* still to come: what GET /workflows/{id} answers then is the answer from before
\* the request or the answer the second commit will leave.
C1_ReaderSeesBeforeOrAfter ==
    pc["s1"] = "commit2" =>
        LET wid == mem["s1"].workflow_id IN
        api_get_workflow(db, wid) \in
            {api_get_workflow(pre, wid), api_get_workflow(Flushed(mem["s1"]), wid)}

\* C2: when a commit of a gateway operation fails, the operation reports the
\* failure and the store is as it was before the operation.
C2_FailedCommitLeavesStore ==
    pc["s1"] = "failed" => db = pre

\* C3: at most one gateway operation is in flight for a workflow id.
C3_OneOperationPerWorkflow ==
    \A s, t \in Sessions :
        (s # t /\ InFlight(s) /\ InFlight(t) /\ Target(s) # 0) => Target(s) # Target(t)

\* ---- what a pass logged

\* The rules a pass listed, without their ids.
RuleTexts(s) ==
    [i \in 1..Len(loaded[s]) |->
        [condition |-> loaded[s][i].condition, action |-> loaded[s][i].action]]

\* The outcomes of a pass, in visiting order.
Outcomes(s) == [i \in 1..Len(passlog[s]) |-> passlog[s][i].outcome]

\* The statements the pass of s ran in the turn of rule i: those of its
\* condition, then those of its action.
AppliedOf(s, i) ==
    ConditionStatements(loaded[s][i].condition)
        \o SubSeq(loaded[s][i].action.effects, 1, passlog[s][i].applied)

\* The statements the pass of s ran for its first n rules, in order.
RECURSIVE AppliedUpTo(_, _)
AppliedUpTo(s, n) == IF n = 0 THEN <<>> ELSE AppliedUpTo(s, n - 1) \o AppliedOf(s, n)

\* The events a sequence of statements appends, in order.
EventsIn(effs) ==
    LET appends == SelectSeq(effs, LAMBDA e : e.kind = "append_event") IN
    [i \in 1..Len(appends) |-> [event_type |-> appends[i].arg]]

\* The workflow state a sequence of statements leaves, from state st.
RECURSIVE StateAfter(_, _)
StateAfter(st, effs) ==
    IF effs = <<>> THEN st
    ELSE StateAfter(IF Head(effs).kind = "set_state" THEN Head(effs).arg ELSE st, Tail(effs))

\* The rules of a pass whose condition or action raised.
FailedRules(s) ==
    {k \in 1..Len(passlog[s]) : passlog[s][k].outcome \in {"condition_error", "action_error"}}

\* The pass of the request of s has run.
PassDone(s) == pc[s] \in {"commit2", "done"}

\* The rows the second commit of s inserted are the events of its pass.
PassEventsStored(s) ==
    /\ Len(wrote[s].rule_events) = Len(mem[s].new_events)
    /\ \A i \in 1..Len(wrote[s].rule_events) :
          /\ wrote[s].rule_events[i] \in 1..Len(events)
          /\ events[wrote[s].rule_events[i]] = PassEvents(mem[s])[i]

C6_LaterRuleSeesEarlierEffect ==
    \A s \in Sessions : PassDone(s) =>
        /\ \A i \in 1..Len(passlog[s]) :
              passlog[s][i].seen_state =
                  IF i = 1 THEN mem[s].loaded_state
                  ELSE StateAfter(passlog[s][i - 1].seen_state, AppliedOf(s, i - 1))
        /\ \A i \in 1..Len(passlog[s]) :
              loaded[s][i].condition = StateEq(passlog[s][i].seen_state) <=>
                  passlog[s][i].outcome \in {"fired", "action_error"}
        /\ (RuleTexts(s) = <<AdvanceRule, NotifyRule>> /\ mem[s].loaded_state = ORDERED) =>
              /\ Outcomes(s) = <<"fired", "fired">>
              /\ mem[s].state = PENDING_ACCESS
              /\ mem[s].new_events = <<[event_type |-> "auto_advanced"]>>
              /\ pc[s] = "done" =>
                    /\ PassEventsStored(s)
                    /\ Len(wrote[s].rule_events) = 1
                    /\ events[wrote[s].rule_events[1]].event_type = "auto_advanced"

\* C6 happens: R1 and R2 are stored in that order and a mutation of a workflow in
\* ORDERED has returned.
C6_Witness ==
    /\ pc["s1"] = "done"
    /\ RuleTexts("s1") = <<AdvanceRule, NotifyRule>>
    /\ mem["s1"].loaded_state = ORDERED
    /\ Len(Owned(events, mem["s1"].workflow_id)) >= 1

\* C7: a pass evaluates no rule twice; when a later rule B makes the condition of
\* an earlier rule A true, A is not applied in that pass, and is applied in the
\* pass of the next mutation of the workflow.  Here A is R2 and B is R1.
C7_SinglePassNoFixpoint ==
    \A s \in Sessions : PassDone(s) =>
        /\ \A i, j \in 1..Len(passlog[s]) : i # j => passlog[s][i].id # passlog[s][j].id
        /\ Len(passlog[s]) <= Len(loaded[s])
        /\ mem[s].state = StateAfter(mem[s].loaded_state, AppliedUpTo(s, Len(passlog[s])))
        /\ mem[s].new_events = EventsIn(AppliedUpTo(s, Len(passlog[s])))
        /\ (RuleTexts(s) = <<NotifyRule, AdvanceRule>> /\ mem[s].loaded_state = ORDERED) =>
              /\ Outcomes(s) = <<"skipped", "fired">>
              /\ mem[s].state = PENDING_ACCESS
              /\ mem[s].new_events = <<>>
              /\ pc[s] = "done" => wrote[s].rule_events = <<>>
        /\ (RuleTexts(s) = <<NotifyRule, AdvanceRule>>
              /\ mem[s].loaded_state = PENDING_ACCESS) =>
              /\ Outcomes(s) = <<"fired", "skipped">>
              /\ mem[s].new_events = <<[event_type |-> "auto_advanced"]>>

\* C7 happens: with A before B, the pass of a second mutation found the workflow
\* in PENDING_ACCESS and applied A.
C7_Witness ==
    /\ pc["s1"] = "done"
    /\ op["s1"].kind = "add_event"
    /\ RuleTexts("s1") = <<NotifyRule, AdvanceRule>>
    /\ mem["s1"].loaded_state = PENDING_ACCESS
    /\ Len(wrote["s1"].rule_events) = 1

\* The primitive edit of the request of s is in the tables.
EditStored(s) ==
    LET r == op[s]
        w == wrote[s]
    IN
    /\ w.workflow \in 1..Len(workflows)
    /\ workflows[w.workflow].updated_at = r.ts
    /\ CASE r.kind = "create_workflow" ->
              /\ Len(w.tasks) = Len(r.initial_tasks)
              /\ \A i \in 1..Len(w.tasks) :
                    /\ tasks[w.tasks[i]].workflow_id = w.workflow
                    /\ tasks[w.tasks[i]].name = r.initial_tasks[i]
         [] r.kind = "add_task" ->
              /\ Len(w.tasks) = 1
              /\ tasks[w.tasks[1]].workflow_id = r.workflow_id
              /\ tasks[w.tasks[1]].name = r.name
         [] r.kind = "add_event" ->
              /\ Len(w.events) = 1
              /\ events[w.events[1]].workflow_id = r.workflow_id
              /\ \/ events[w.events[1]].event_type = r.name
                 \/ w.events[1] \in mem[s].retyped.ids
         [] r.kind = "update_task_state" ->
              /\ tasks[r.task_id].state = r.new_state
              /\ tasks[r.task_id].updated_at = r.ts
         [] OTHER -> FALSE

\* C8: a gateway operation that succeeds runs exactly one pass, after its
\* primitive edit and before it returns; one that fails with NotFound runs none.
C8_ExactlyOnePass ==
    \A s \in Sessions :
        /\ passes[s] <= 1
        /\ pc[s] = "done" => passes[s] = 1 /\ Len(passlog[s]) = Len(loaded[s])
        /\ pc[s] = "notfound" => passes[s] = 0 /\ passlog[s] = <<>>
        /\ (passes[s] = 1 /\ Alone) => EditStored(s)

\* C8 happens: an update_task_state has returned after a pass over stored rules.
C8_Witness ==
    /\ pc["s1"] = "done"
    /\ op["s1"].kind = "update_task_state"
    /\ passes["s1"] = 1
    /\ Len(passlog["s1"]) >= 1

\* C9: a rule whose condition or action does not parse is rejected by createRule
\* and never stored.
C9_UnparsableRuleNeverStored ==
    \A i \in 1..Len(rules) : Parses(rules[i].condition) /\ Parses(rules[i].action)

\* C10: add_task and add_event on a workflow id that does not resolve fail with
\* NotFound and change nothing: no row is created, no updated_at moves, and
\* list_workflows answers what it answered before.
C10_NotFoundChangesNothing ==
    (pc["s1"] # "idle" /\ op["s1"].kind \in {"add_task", "add_event"}) =>
        /\ pc["s1"] = "notfound" <=> op["s1"].workflow_id \notin 1..Len(pre.workflows)
        /\ pc["s1"] = "notfound" =>
              /\ db = pre
              /\ api_list_workflows(db) = api_list_workflows(pre)

\* C10 happens: add_task named a workflow that does not exist while another
\* workflow does.
C10_Witness ==
    /\ pc["s1"] = "notfound"
    /\ op["s1"].kind = "add_task"
    /\ Len(workflows) >= 1

StateAfterTurn(s, k) ==
    IF k < Len(passlog[s]) THEN passlog[s][k + 1].seen_state ELSE mem[s].state

\* C13: a rule whose condition raises leaves the aggregate as it was before its
\* turn, and every other rule of the pass is still evaluated.
C13_ConditionErrorLeavesAggregate ==
    \A s \in Sessions : PassDone(s) =>
        \A k \in 1..Len(passlog[s]) :
            passlog[s][k].outcome = "condition_error" =>
                /\ passlog[s][k].applied = 0
                /\ StateAfterTurn(s, k) = passlog[s][k].seen_state
                /\ Len(passlog[s]) = Len(loaded[s])

\* The statements of the pass of s that assign the workflow's state, all turns
\* but that of rule i.
OtherAssignments(s, i) ==
    {j \in 1..Len(passlog[s]) \ {i} :
        \E n \in 1..Len(AppliedOf(s, j)) : AppliedOf(s, j)[n].kind = "set_state"}

\* C14: with the rule {state == ORDERED -> state := PENDING_ACCESS} stored,
\* create_workflow returns a workflow in PENDING_ACCESS and a read returns the
\* same: the rule fires in the pass of the creation, the only pass there was.
C14_RuleFiresOnCreation ==
    \A s \in Sessions :
        (/\ pc[s] = "done"
         /\ op[s].kind = "create_workflow"
         /\ \E i \in 1..Len(loaded[s]) :
               RuleTexts(s)[i] = AdvanceRule /\ OtherAssignments(s, i) = {}) =>
            /\ passes[s] = 1
            /\ \E i \in 1..Len(passlog[s]) :
                  RuleTexts(s)[i] = AdvanceRule /\ passlog[s][i].outcome = "fired"
            /\ Alone =>
                  /\ api_get_workflow(db, wrote[s].workflow) # <<>>
                  /\ api_get_workflow(db, wrote[s].workflow)[1].state = PENDING_ACCESS
                  /\ to_workflow_read(db, wrote[s].workflow).updated_at = op[s].ts

\* C14 happens: the rule is the only one stored and a creation has returned.
C14_Witness ==
    /\ pc["s1"] = "done"
    /\ op["s1"].kind = "create_workflow"
    /\ RuleTexts("s1") = <<AdvanceRule>>
    /\ workflows[wrote["s1"].workflow].state = PENDING_ACCESS

\* No rule of the pass of s matched: no turn ran a statement.
NoRuleMatched(s) ==
    \A i \in 1..Len(passlog[s]) :
        passlog[s][i].outcome \in {"skipped", "condition_error"} /\ AppliedOf(s, i) = <<>>

\* C15: create_workflow with no matching rule yields a workflow in ORDERED with
\* one task per element of initial_tasks, in the order given, each pending and
\* each owned by the new workflow, and no event; with no initial task, no task.
C15_CreateWorkflowShape ==
    \A s \in Sessions :
        (pc[s] = "done" /\ op[s].kind = "create_workflow" /\ NoRuleMatched(s) /\ Alone) =>
            LET w == to_workflow_read(db, wrote[s].workflow)
                its == op[s].initial_tasks
            IN
            /\ w.state = ORDERED
            /\ w.events = <<>>
            /\ Len(w.tasks) = Len(its)
            /\ \A k \in 1..Len(w.tasks) :
                  /\ w.tasks[k].name = its[k]
                  /\ w.tasks[k].state = "pending"
                  /\ w.tasks[k].workflow_id = w.id
            /\ \A k, l \in 1..Len(w.tasks) : k < l => w.tasks[k].id < w.tasks[l].id

\* C15 happens: a workflow was created with two initial tasks while a rule that
\* does not match was stored.
C15_Witness ==
    /\ pc["s1"] = "done"
    /\ op["s1"].kind = "create_workflow"
    /\ op["s1"].initial_tasks = <<"a", "b">>
    /\ Len(passlog["s1"]) >= 1
    /\ NoRuleMatched("s1")
    /\ Len(to_workflow_read(db, wrote["s1"].workflow).tasks) = 2

\* C16: no step makes the updated_at of a workflow smaller than it was.
C16_UpdatedAtNeverDecreases ==
    [][\A w \in 1..Len(workflows) :
          workflows'[w].updated_at >= workflows[w].updated_at]_vars

\* C17: the event log only grows: no step removes an event or changes a field
\* of an event that exists.
C17_EventLogAppendOnly ==
    [][/\ Len(events') >= Len(events)
       /\ \A e \in 1..Len(events) : events'[e] = events[e]]_vars

\* C18: a pass evaluates the rules that were stored when it listed them: every
\* rule committed before, and none committed after, whether the pass is still
\* running or over.
C18_PassUsesRulesAtItsStart ==
    [][\A s \in Sessions :
          /\ (pc[s] = "listrules" /\ pc'[s] = "eval") =>
                /\ Len(loaded'[s]) = Len(rules)
                /\ \A i \in 1..Len(rules) :
                      /\ loaded'[s][i].id = i
                      /\ loaded'[s][i].condition = rules[i].condition
                      /\ loaded'[s][i].action = rules[i].action
          /\ (pc[s] = "eval" /\ pc'[s] = "commit2") =>
                /\ loaded'[s] = loaded[s]
                /\ {passlog'[s][i].id : i \in 1..Len(passlog'[s])} = 1..Len(loaded[s])
          /\ (pc[s] \in {"eval", "commit2"} /\ rules' # rules) =>
                /\ loaded'[s] = loaded[s]
                /\ passlog'[s] = passlog[s]
                /\ mem'[s] = mem[s]]_vars

\* C18 happens: a pass has listed one rule and not yet evaluated it, and a
\* second rule has been committed.
C18_Witness ==
    /\ pc["s1"] = "eval"
    /\ Len(loaded["s1"]) = 1
    /\ Len(rules) = 2

\* A workflow as a reader sees it, without row ids and timestamps.
Body(d, wid) ==
    LET w == to_workflow_read(d, wid) IN
    [state |-> w.state,
     tasks |-> [k \in 1..Len(w.tasks) |-> [name |-> w.tasks[k].name, state |-> w.tasks[k].state]],
     events |-> [k \in 1..Len(w.events) |-> w.events[k].event_type]]

\* What the request of s makes of its workflow when it runs with nothing else
\* between the snapshot d and its return, given the rules its pass listed.
AloneResult(s, d) ==
    LET r == op[s]
        wid == wrote[s].workflow
        base == IF r.kind = "create_workflow"
                THEN [state |-> ORDERED, tasks |-> <<>>, events |-> <<>>]
                ELSE Body(d, wid)
        added == NewTasks(r, wid)
        edited == IF r.kind = "update_task_state"
                  THEN [k \in 1..Len(base.tasks) |->
                           IF Owned(d.tasks, wid)[k] = r.task_id
                           THEN [base.tasks[k] EXCEPT !.state = r.new_state]
                           ELSE base.tasks[k]]
                  ELSE base.tasks \o [k \in 1..Len(added) |->
                                         [name |-> added[k].name, state |-> added[k].state]]
        logged == base.events
                    \o [k \in 1..Len(NewEvents(r, wid)) |-> NewEvents(r, wid)[k].event_type]
        pass == EvaluatePass(loaded[s], [workflow_id |-> wid, loaded_state |-> base.state,
                                         state |-> base.state, new_events |-> <<>>,
                                         retyped |-> NoRetyped, moved |-> NoMoved])
    IN
    [state |-> pass.wf.state,
     tasks |-> edited,
     events |-> logged \o [k \in 1..Len(pass.wf.new_events) |-> pass.wf.new_events[k].event_type]]

\* The requests of s and t are the first two of the run, so the only two since
\* the snapshot of s, and they are on different workflows.
Overlapped(s, t) ==
    /\ pc[s] = "done"
    /\ pc[t] \in {"commit1", "refresh", "listrules", "eval", "commit2", "done", "failed"}
    /\ {op[s].ts, op[t].ts} = {1, 2}
    /\ Target(t) # wrote[s].workflow

\* Some rule of the list reads the clock, so that what it does depends on when
\* it is evaluated.
ReadsClock(rs) == \E i \in 1..Len(rs) : rs[i].condition.kind = "clock_past"

C20_PassDeterministic ==
    \A s, t \in Sessions :
        (/\ PassDone(s) /\ PassDone(t)
         /\ loaded[s] = loaded[t]
         /\ mem[s].loaded_state = mem[t].loaded_state) =>
            /\ mem[s].state = mem[t].state
            /\ mem[s].new_events = mem[t].new_events
            /\ Outcomes(s) = Outcomes(t)

\* C21: every stored workflow state is a member of WorkflowState and every
\* stored task state a member of TaskState.
C21_StatesInEnumerations ==
    /\ \A w \in 1..Len(workflows) : workflows[w].state \in WorkflowState
    /\ \A t \in 1..Len(tasks) : tasks[t].state \in TaskState

\* C22: no transition table: a rule action moves a workflow from any state to
\* any state in one pass, COMPLETED and FAILED included, and the move is what
\* the second commit stores; update_task_state stores any new task state
\* whatever the task's state was.
C22_NoTransitionTable ==
    /\ \A a, b \in WorkflowState :
          LET rule == [condition |-> StateEq(a), action |-> Effects(<<SetState(b)>>)]
              r == EvalRule(rule, [NoMem EXCEPT !.loaded_state = a, !.state = a])
          IN r.outcome = "fired" /\ r.wf.state = b
    /\ \A s \in Sessions : PassDone(s) =>
          /\ \A i \in 1..Len(passlog[s]) :
                (passlog[s][i].outcome = "fired" /\ loaded[s][i].action.effects # <<>>) =>
                    LET last == loaded[s][i].action.effects[Len(loaded[s][i].action.effects)] IN
                    last.kind = "set_state" => StateAfterTurn(s, i) = last.arg
          /\ (pc[s] = "done" /\ Alone) => workflows[mem[s].workflow_id].state = mem[s].state
    /\ \A s \in Sessions :
          (op[s].kind = "update_task_state" /\ Alone
             /\ pc[s] \in {"refresh", "listrules", "eval", "commit2", "done"}) =>
              tasks[op[s].task_id].state = op[s].new_state

\* C22 happens: a task that was completed has been moved back to pending, and
\* the pass of that operation moved the workflow out of COMPLETED or FAILED.
C22_Witness ==
    /\ pc["s1"] = "done"
    /\ op["s1"].kind = "update_task_state"
    /\ op["s1"].new_state = "pending"
    /\ pre.tasks[op["s1"].task_id].state = "completed"
    /\ tasks[op["s1"].task_id].state = "pending"
    /\ \E i \in 1..Len(passlog["s1"]) :
          /\ passlog["s1"][i].seen_state \in {COMPLETED, FAILED}
          /\ passlog["s1"][i].outcome = "fired"
          /\ StateAfterTurn("s1", i) \notin {COMPLETED, FAILED}

\* C23: every gateway operation that was staged comes to its end: it returns
\* or fails.
C23_OperationTerminates ==
    \A s \in Sessions : InFlight(s) ~> (pc[s] \in {"done", "failed"})

\* C24: a task stays in the workflow it was created in: no step changes the
\* workflow_id of a task that exists or removes the task, so no workflow's
\* number of tasks goes down.
C24_TaskKeepsItsWorkflow ==
    [][/\ Len(tasks') >= Len(tasks)
       /\ \A t \in 1..Len(tasks) : tasks'[t].workflow_id = tasks[t].workflow_id]_vars

\* C25: the demo registry and the stored workflows are apart: a step that
\* changes DEMO_ROWS or DEMO_BY_ID (seeding, or simulating on a negative id)
\* leaves every table as it is, a simulate request on a negative id leaves the
\* tables as they are, and no step of a simulate request on a stored workflow
\* changes the registry.
C25_RegistryApartFromStore ==
    [][/\ (DEMO_ROWS' # DEMO_ROWS \/ DEMO_BY_ID' # DEMO_BY_ID) => UNCHANGED tableVars
       /\ \A s \in Sessions :
            /\ (/\ op'[s] # op[s]
                /\ op'[s].kind = "simulate_repetition"
                /\ op'[s].workflow_id < 0) => UNCHANGED tableVars
            /\ (/\ sim[s].active \/ sim'[s].active
                /\ pc'[s] # pc[s] \/ sim'[s] # sim[s]) => UNCHANGED <<DEMO_ROWS, DEMO_BY_ID>>]_vars

\* The registry holds a row that was simulated on, and the store holds the
\* ticks of a simulation on workflow 1.
C25_Witness ==
    /\ DemoTicks(DEMO_ROWS) > 0
    /\ \E r \in 1..Len(DEMO_ROWS) : DEMO_ROWS[r].tasks > 1
    /\ \E e \in 1..Len(events) : events[e].event_type = "demo_repetition_tick"

\* C26: a request is in the gateway only after its credential was mapped to a
\* role: whenever a gateway operation is under way for a session, the auth
\* module has been called for the request and has returned a user with a role.
C26_RoleMappedBeforeGateway ==
    \A s \in Sessions :
        InFlight(s) => /\ auth[s].call \in {"require_auth", "require_role"}
                       /\ auth[s].user.role \in {"admin", "operator", "auditor"}

\* C29: require_auth answers 401 to every key that is not one of the three
\* keys and otherwise returns the key with its role; require_role(r) lets a
\* request pass only when the role of its key is r itself (no role stands
\* above another: the admin key is answered 403 where operator is required),
\* and answers 401, not 403, to an unknown key whatever r is.
C29_AuthChecksKeyThenRole ==
    \A s \in Sessions :
        LET a == auth[s]
            known == a.x_api_key \in {"demo-admin-key", "demo-operator-key", "demo-auditor-key"}
            role == CASE a.x_api_key = "demo-admin-key" -> "admin"
                      [] a.x_api_key = "demo-operator-key" -> "operator"
                      [] a.x_api_key = "demo-auditor-key" -> "auditor"
                      [] OTHER -> "none"
        IN
        /\ a.call = "require_auth" =>
              /\ ~known => a.status = 401 /\ a.user = NoUser
              /\ known => a.status = 200 /\ a.user = [api_key |-> a.x_api_key, role |-> role]
        /\ a.call = "require_role" =>
              /\ ~known => a.status = 401
              /\ (known /\ role # a.required) => a.status = 403 /\ a.user = NoUser
              /\ (known /\ role = a.required) =>
                     a.status = 200 /\ a.user = [api_key |-> a.x_api_key, role |-> role]

\* The admin key was answered 403 where operator is required, and an unknown
\* key was answered 401 by the same checker.
C29_Witness ==
    /\ auth["s1"].call = "require_role"
    /\ auth["s1"].x_api_key = "demo-admin-key"
    /\ auth["s1"].required = "operator"
    /\ auth["s1"].status = 403
    /\ auth["s2"].call = "require_role"
    /\ auth["s2"].x_api_key = "wrong-key"
    /\ auth["s2"].status = 401

\* C27: when simulate_repetition on a stored workflow with cycles = n >= 1 has
\* answered ok, it made n add_event calls one after the other: call i stored
\* one "demo_repetition_tick" event with tick i, after the event of call i - 1,
\* these are the only tick events stored since the first, each call ran one
\* pass, and the pass of call i started from the state the pass of call i - 1
\* left, which for the last call is the state the workflow has now.
C27_SimulateRunsNAddEvents ==
    \A s \in Sessions :
        (sim[s].status = "ok" /\ sim[s].workflow_id >= 0 /\ sim[s].cycles >= 1) =>
            LET g == sim[s]
                n == g.cycles
                wid == g.workflow_id
            IN
            /\ g.did = n
            /\ Len(g.log) = n
            /\ \A i \in 1..n :
                  /\ g.log[i].tick = i
                  /\ g.log[i].passes = 1
                  /\ Len(g.log[i].events) = 1
                  /\ events[g.log[i].events[1]] =
                        [workflow_id |-> wid, event_type |-> "demo_repetition_tick", tick |-> i]
            /\ \A i \in 2..n :
                  /\ g.log[i].events[1] > g.log[i - 1].events[1]
                  /\ g.log[i].seen_state = g.log[i - 1].state
            /\ workflows[wid].state = g.log[n].state
            /\ Cardinality({e \in g.log[1].events[1]..Len(events) :
                              /\ events[e].workflow_id = wid
                              /\ events[e].event_type = "demo_repetition_tick"}) = n

\* A simulation of two cycles has answered, and the cascade of two rules was
\* applied over its two passes: the first advanced the workflow, the second
\* saw that and appended the event of the rule listed first.
C27_Witness ==
    /\ sim["s1"].status = "ok"
    /\ sim["s1"].cycles = 2
    /\ sim["s1"].workflow_id = 1
    /\ rules = <<NotifyRule, AdvanceRule>>
    /\ sim["s1"].log[1].seen_state = ORDERED
    /\ sim["s1"].log[2].seen_state = PENDING_ACCESS
    /\ \E e \in 1..Len(events) : events[e].event_type = "auto_advanced"

\* C28: a simulate request with cycles < 1 is answered ok with did = 0 and
\* changes neither the registry nor a table, whether or not its id names a
\* demo row or a stored workflow; with cycles >= 1 an id that names neither is
\* answered not found, and nothing changes.
C28_SimulateEarlyAnswers ==
    [][\A s \in Sessions :
          (sim[s] = NoSim /\ sim'[s] # NoSim) =>
              LET wid == sim'[s].workflow_id
                  unknown == \/ wid < 0 /\ wid \notin DOMAIN DEMO_BY_ID
                             \/ wid >= 0 /\ wid \notin 1..Len(workflows)
              IN
              /\ sim'[s].cycles < 1 =>
                    /\ sim'[s].status = "ok" /\ sim'[s].did = 0 /\ pc'[s] = "done"
                    /\ UNCHANGED <<tableVars, DEMO_ROWS, DEMO_BY_ID>>
              /\ (sim'[s].cycles >= 1 /\ unknown) =>
                    /\ sim'[s].status = "not_found" /\ pc'[s] = "notfound"
                    /\ UNCHANGED <<tableVars, DEMO_ROWS, DEMO_BY_ID>>]_vars

\* A request with cycles < 1 for a stored workflow that does not exist was
\* answered ok with did = 0, while the registry holds rows none of which has
\* the id -2 either.
C28_Witness ==
    /\ sim["s1"].cycles < 1
    /\ sim["s1"].workflow_id = 2
    /\ sim["s1"].status = "ok"
    /\ sim["s1"].did = 0
    /\ Len(workflows) = 1
    /\ Len(DEMO_ROWS) = 1
    /\ -2 \notin DOMAIN DEMO_BY_ID

C31_RulesFireEveryPass ==
    (pc["s1"] = "done" /\ Alone /\ \A i \in 1..Len(loaded["s1"]) :
                                      RuleTexts("s1")[i] \in {AdvanceRule, NotifyRule}) =>
        LET s == "s1"
            wid == mem[s].workflow_id
            turns == {i \in 1..Len(loaded[s]) :
                        /\ RuleTexts(s)[i] = NotifyRule
                        /\ passlog[s][i].seen_state = PENDING_ACCESS}
            before == IF op[s].kind = "create_workflow" THEN 0
                      ELSE Len(Owned(pre.events, wid))
        IN
        /\ \A i \in turns : passlog[s][i].outcome = "fired"
        /\ Len(wrote[s].rule_events) = Cardinality(turns)
        /\ \A i \in 1..Len(wrote[s].rule_events) :
              events[wrote[s].rule_events[i]] =
                  [workflow_id |-> wid, event_type |-> "auto_advanced", tick |-> 0]
        /\ Len(Owned(events, wid)) =
              before + Len(NewEvents(op[s], wid)) + Cardinality(turns)
        /\ (op[s].kind = "add_event" /\ Cardinality(turns) = 1) =>
              Len(Owned(events, wid)) = before + 2

\* The second operation on a workflow in PENDING_ACCESS has returned: the
\* first left one event of NotifyRule, the add_event stored its own event and
\* NotifyRule, fired again, a second one.
C31_Witness ==
    /\ pc["s1"] = "done"
    /\ op["s1"].kind = "add_event"
    /\ mem["s1"].loaded_state = PENDING_ACCESS
    /\ mem["s1"].state = PENDING_ACCESS
    /\ Len(events) = 3
    /\ events[1] = [workflow_id |-> 1, event_type |-> "auto_advanced", tick |-> 0]
    /\ events[2].workflow_id = 1
    /\ events[2].event_type # "auto_advanced"
    /\ events[3] = [workflow_id |-> 1, event_type |-> "auto_advanced", tick |-> 0]

C33_DemoIdsDistinct ==
    (\A s \in Sessions : seeding[s].at = "idle") =>
        /\ \A r \in 1..Len(DEMO_ROWS) : DEMO_ROWS[r].id = -r
        /\ DOMAIN DEMO_BY_ID = {-r : r \in 1..Len(DEMO_ROWS)}
        /\ \A d \in DOMAIN DEMO_BY_ID : DEMO_ROWS[DEMO_BY_ID[d]].id = d
        /\ Cardinality(DOMAIN DEMO_BY_ID) = Len(DEMO_ROWS)

\* C34: the counters of every demo row are the lengths of its lists, and a
\* simulate request with cycles = n >= 1 on a demo row puts n events, the
\* ticks 1 .. n, at the end of the events of that row, puts n tasks at the end
\* of its tasks when repeat_tasks is set and none otherwise, and leaves the
\* other rows as they are.
C34_DemoCountersAgree ==
    /\ [](\A r \in 1..Len(DEMO_ROWS) :
              /\ DEMO_ROWS[r].events = Len(DEMO_ROWS[r].raw.events)
              /\ DEMO_ROWS[r].tasks = Len(DEMO_ROWS[r].raw.tasks))
    /\ [][\A s \in Sessions :
             (/\ sim[s] = NoSim /\ sim'[s] # NoSim
              /\ sim'[s].workflow_id \in DOMAIN DEMO_BY_ID
              /\ sim'[s].cycles >= 1) =>
                 LET n == sim'[s].cycles
                     r == DEMO_BY_ID[sim'[s].workflow_id]
                     old == DEMO_ROWS[r].raw
                     new == DEMO_ROWS'[r].raw
                 IN
                 /\ sim'[s].status = "ok" /\ sim'[s].did = n
                 /\ Len(DEMO_ROWS') = Len(DEMO_ROWS)
                 /\ \A q \in 1..Len(DEMO_ROWS) : q # r => DEMO_ROWS'[q] = DEMO_ROWS[q]
                 /\ Len(new.events) = Len(old.events) + n
                 /\ SubSeq(new.events, 1, Len(old.events)) = old.events
                 /\ \A i \in 1..n :
                       new.events[Len(old.events) + i] =
                           [event_type |-> "demo_repetition_tick", tick |-> i]
                 /\ Len(new.tasks) = Len(old.tasks) + (IF op'[s].repeat_tasks THEN n ELSE 0)
                 /\ SubSeq(new.tasks, 1, Len(old.tasks)) = old.tasks]_vars

\* A simulate request with two cycles and repeat_tasks on the second demo row
\* was answered: the row counts five events and three tasks, the first row is
\* as it was seeded.
C34_Witness ==
    /\ sim["s1"].status = "ok"
    /\ sim["s1"].workflow_id = -2
    /\ sim["s1"].cycles = 2
    /\ op["s1"].repeat_tasks
    /\ Len(DEMO_ROWS) >= 2
    /\ DEMO_ROWS[2].events = 5
    /\ DEMO_ROWS[2].tasks = 3
    /\ DEMO_ROWS[1].events = 3
    /\ DEMO_ROWS[1].tasks = 1

====
